---- MODULE Spec2Model ----
(***************************************************************************)
(* Model of StockTradingEngine (src/StockTradingEngine.cpp): a fixed pool  *)
(* of order slots, an atomic slot cursor, an atomic active-order counter,  *)
(* and addOrder / matchOrder run by several threads.                       *)
(*                                                                         *)
(* Every access to the shared pool is one step, so the interleavings of    *)
(* the model are the interleavings of the unsynchronised reads and writes  *)
(* of the Order fields.  The two std::atomic<int> are read and updated     *)
(* atomically.                                                             *)
(*                                                                         *)
(* Encodings.  Prices are doubles in the code; the model uses the integer  *)
(* valued ones, compared exactly as the code compares them.  Timestamps    *)
(* are microseconds since the epoch (about 1.7 * 10^15), beyond TLC's      *)
(* integers; the code only compares them, so the model keeps their order:  *)
(* TS_DEFAULT stands for 0 (Order()), TS_INT_MAX for the value INT_MAX the *)
(* scan starts from, and a clock reading k >= 0 is TS_INT_MAX + 1 + k.     *)
(*                                                                         *)
(* Line 83 copies a whole Order into the claimed slot with plain stores    *)
(* while other threads may read or write that slot.  The copy is modelled  *)
(* one field at a time, in no fixed order.  A store of the copy commutes   *)
(* with every step that does not touch its field, so the model lets a      *)
(* pending store land at the moment another thread touches the field       *)
(* (before it) or leaves it pending (after it); Write lands what is left.  *)
(***************************************************************************)
EXTENDS Integers, Sequences, FiniteSets, TLC

\* ---------------------------------------------------------------- constants
NUM_TICKERS == 1024
ORDER_TYPE_BUY == 0
ORDER_TYPE_SELL == 1
INT_MAX == 2147483647
TS_DEFAULT == 0
TS_INT_MAX == 1

\* ------------------------------------------------------------------- bounds
\* MAX_ORDERS is the pool capacity (10000 in the source), scaled down.
MAX_ORDERS == 3
\* The threads of simulateActiveTrading (10 in main).
NumThreads == 2

Threads == 1..NumThreads
Slots == 0..(MAX_ORDERS - 1)
Fields == {"order_type", "ticker", "quantity", "price", "timestamp", "active"}

\* Ticker symbols as sequences of char values: "A" and "B".
SymA == <<65>>
SymB == <<66>>
\* Two readings of the system clock.
Clock0 == TS_INT_MAX + 1
Clock1 == TS_INT_MAX + 2

\* Arguments that fail validation: an order type that is neither Buy nor
\* Sell, a quantity <= 0, a price <= 0.
InvalidInputs ==
  {<<2, SymA, 1, 1, Clock0>>, <<ORDER_TYPE_BUY, SymA, 0, 1, Clock0>>,
   <<ORDER_TYPE_SELL, SymA, -1, 1, Clock0>>, <<ORDER_TYPE_BUY, SymA, 1, 0, Clock0>>,
   <<ORDER_TYPE_SELL, SymA, 1, -1, Clock0>>}

\* The arguments <<order_type, ticker_symbol, quantity, price, clock reading>>
\* of the calls that do not overlap: every combination on symbol A, and one
\* order of each side on symbol B.
SeqInputs ==
  ({ORDER_TYPE_BUY, ORDER_TYPE_SELL} \X {SymA} \X {1, 2} \X {1, INT_MAX}
     \X {Clock0, Clock1})
  \cup ({ORDER_TYPE_BUY, ORDER_TYPE_SELL} \X {SymB} \X {1} \X {1} \X {Clock0})
  \cup InvalidInputs

\* The arguments of the calls that overlap.
ConcInputs ==
  ({ORDER_TYPE_BUY, ORDER_TYPE_SELL} \X {SymA} \X {1, 2} \X {1} \X {Clock0})
  \cup InvalidInputs

\* orders, order_count and next_order_id are the engine's fields; pc and loc
\* are each thread's position and locals; ret is what each thread's last
\* addOrder returned (val) and the line of the return statement (at; 0 while
\* no call has returned).  trades and admitted record the history: the
\* trades printed by the call that admitted each slot, and the quantity each
\* slot was claimed with.
VARIABLES orders, order_count, next_order_id, pc, loc, ret, trades, admitted

vars == <<orders, order_count, next_order_id, pc, loc, ret, trades, admitted>>

\* ------------------------------------------------------------ pure helpers
\* Min with the comparison reversed.
MaxOf(a, b) == IF a >= b THEN a ELSE b

Min(a, b) == IF a <= b THEN a ELSE b

\* C++ integer remainder: truncates toward zero, so it has the sign of a.
CRem(a, b) == IF a >= 0 THEN a % b ELSE -((-a) % b)

RECURSIVE SumChars(_, _)
SumChars(s, n) ==
  IF n = 0 \/ s = <<>> THEN 0 ELSE Head(s) + SumChars(Tail(s), n - 1)

\* Sum of the first four chars, modulo NUM_TICKERS.
ticker_to_index(ticker_symbol) == CRem(SumChars(ticker_symbol, 4), NUM_TICKERS)

\* Order(): the default-constructed slot.
DefaultOrder ==
  [order_type |-> 0, ticker |-> 0, quantity |-> 0, price |-> 0,
   timestamp |-> TS_DEFAULT, active |-> FALSE]

\* Order(type, tick, qty, prc, ts)
NewOrder(type, tick, qty, prc, ts) ==
  [order_type |-> type, ticker |-> tick, quantity |-> qty, price |-> prc,
   timestamp |-> ts, active |-> TRUE]

\* The locals of a thread that is not inside addOrder.  wr is the set of
\* fields of the claimed slot that line 83 has stored so far.
IdleLoc ==
  [order_type |-> 0, ticker |-> 0, quantity |-> 0, price |-> 0, timestamp |-> 0,
   slot |-> -1, wr |-> {}, i |-> 0,
   best_match_id |-> -1, best_match_price |-> 0, best_match_timestamp |-> 0,
   new_qty |-> 0, matched_qty |-> 0, match_qty |-> 0, tmp |-> 0]

NoRet == [val |-> FALSE, at |-> 0]

\* ------------------------------------------------------------------- Init
Init ==
  /\ orders = [s \in Slots |-> DefaultOrder]
  /\ order_count = 0
  /\ next_order_id = 0
  /\ pc = [p \in Threads |-> "idle"]
  /\ loc = [p \in Threads |-> IdleLoc]
  /\ ret = [p \in Threads |-> NoRet]
  /\ trades = [s \in Slots |-> <<>>]
  /\ admitted = [s \in Slots |-> 0]

\* addOrder returns v at line ln: the thread leaves the call and drops its
\* locals (l is the locals of all threads before the return).
Return(p, v, ln, l) ==
  /\ pc' = [pc EXCEPT ![p] = "idle"]
  /\ loc' = [l EXCEPT ![p] = IdleLoc]
  /\ ret' = [ret EXCEPT ![p] = [val |-> v, at |-> ln]]

\* ---------------------------------------------------------------- addOrder
\* ValidInputs without the test of the quantity.
ValidInputsNoQuantity(order_type, quantity, price) ==
  /\ order_type = ORDER_TYPE_BUY \/ order_type = ORDER_TYPE_SELL
  /\ ~(price <= 0)

\* Lines 64-65.
ValidInputs(order_type, quantity, price) ==
  /\ order_type = ORDER_TYPE_BUY \/ order_type = ORDER_TYPE_SELL
  /\ ~(quantity <= 0 \/ price <= 0)

\* Lines 62-68: validation, ticker_to_index, get_current_timestamp (ts is
\* the reading of the system clock, which is not a steady clock).
Call(p, order_type, ticker_symbol, quantity, price, ts) ==
  /\ pc[p] = "idle"
  /\ IF ValidInputs(order_type, quantity, price)
       THEN /\ pc' = [pc EXCEPT ![p] = "load"]
            /\ loc' = [loc EXCEPT ![p] =
                        [IdleLoc EXCEPT !.order_type = order_type,
                                        !.ticker = ticker_to_index(ticker_symbol),
                                        !.quantity = quantity,
                                        !.price = price,
                                        !.timestamp = ts]]
            /\ ret' = [ret EXCEPT ![p] = NoRet]
       ELSE Return(p, FALSE, 64, loc)
  /\ UNCHANGED <<orders, order_count, next_order_id, trades, admitted>>

\* Load with slot > MAX_ORDERS as the capacity test.
LoadOffByOne(p) ==
  /\ pc[p] = "load"
  /\ IF next_order_id > MAX_ORDERS
       THEN Return(p, FALSE, 74, loc)
       ELSE /\ pc' = [pc EXCEPT ![p] = "cas"]
            /\ loc' = [loc EXCEPT ![p].slot = next_order_id]
            /\ UNCHANGED ret
  /\ UNCHANGED <<orders, order_count, next_order_id, trades, admitted>>

\* Lines 73-74: slot = next_order_id.load(); if (slot >= MAX_ORDERS) return false.
Load(p) ==
  /\ pc[p] = "load"
  /\ IF next_order_id >= MAX_ORDERS
       THEN Return(p, FALSE, 74, loc)
       ELSE /\ pc' = [pc EXCEPT ![p] = "cas"]
            /\ loc' = [loc EXCEPT ![p].slot = next_order_id]
            /\ UNCHANGED ret
  /\ UNCHANGED <<orders, order_count, next_order_id, trades, admitted>>

\* CasOk as a plain store of slot + 1, without the comparison.
CasOkBlind(p) ==
  /\ pc[p] = "cas"
  /\ next_order_id' = loc[p].slot + 1
  /\ pc' = [pc EXCEPT ![p] = "write"]
  /\ admitted' = [admitted EXCEPT ![loc[p].slot] = loc[p].quantity]
  /\ UNCHANGED <<orders, order_count, loc, ret, trades>>

\* Lines 75-79: compare_exchange_weak succeeds.
CasOk(p) ==
  /\ pc[p] = "cas"
  /\ next_order_id = loc[p].slot
  /\ next_order_id' = loc[p].slot + 1
  /\ pc' = [pc EXCEPT ![p] = "write"]
  /\ admitted' = [admitted EXCEPT ![loc[p].slot] = loc[p].quantity]
  /\ UNCHANGED <<orders, order_count, loc, ret, trades>>

\* CasFail that moves the cursor although the exchange failed.
CasFailAdvances(p) ==
  /\ pc[p] = "cas"
  /\ pc' = [pc EXCEPT ![p] = "load"]
  /\ loc' = [loc EXCEPT ![p].slot = next_order_id]
  /\ next_order_id' = Min(next_order_id + 1, MAX_ORDERS)
  /\ UNCHANGED <<orders, order_count, ret, trades, admitted>>

\* Lines 75-80: compare_exchange_weak fails (the cursor moved, or spuriously),
\* which leaves the cursor's value in slot, and the loop reads the cursor
\* again.
CasFail(p) ==
  /\ pc[p] = "cas"
  /\ pc' = [pc EXCEPT ![p] = "load"]
  /\ loc' = [loc EXCEPT ![p].slot = next_order_id]
  /\ UNCHANGED <<orders, order_count, next_order_id, ret, trades, admitted>>

\* The value line 83 stores in field f of the slot p claimed.
FieldValue(p, f) ==
  NewOrder(loc[p].order_type, loc[p].ticker, loc[p].quantity, loc[p].price,
           loc[p].timestamp)[f]

\* Slot s is claimed and its copy (line 83) is not complete.
InWrite(s) == \E q \in Threads : pc[q] = "write" /\ loc[q].slot = s

Owner(s) == CHOOSE q \in Threads : pc[q] = "write" /\ loc[q].slot = s

\* The fields of slot s that line 83 has still to store.
Pending(s) == IF InWrite(s) THEN Fields \ loc[Owner(s)].wr ELSE {}

\* The pool and the locals once the pending stores of the fields C of slot s
\* have landed.
LandOrders(s, C) ==
  IF C = {} THEN orders
  ELSE [orders EXCEPT ![s] =
          [f \in Fields |-> IF f \in C THEN FieldValue(Owner(s), f) ELSE orders[s][f]]]

LandLoc(s, C) ==
  IF C = {} THEN loc ELSE [loc EXCEPT ![Owner(s)].wr = @ \cup C]

\* Line 83: orders[slot] = Order(...); the stores still pending land.
Write(p) ==
  /\ pc[p] = "write"
  /\ orders' = LandOrders(loc[p].slot, Fields \ loc[p].wr)
  /\ loc' = [loc EXCEPT ![p].wr = {}]
  /\ pc' = [pc EXCEPT ![p] = "inc"]
  /\ UNCHANGED <<order_count, next_order_id, ret, trades, admitted>>

\* Line 84: order_count.fetch_add(1).
Inc(p) ==
  /\ pc[p] = "inc"
  /\ order_count' = order_count + 1
  /\ pc' = [pc EXCEPT ![p] = "enter"]
  /\ UNCHANGED <<orders, next_order_id, loc, ret, trades, admitted>>

\* -------------------------------------------------------------- matchOrder
\* The index the scan visits after i: line 105 skips the new order itself.
NextIndex(p, i) == IF i + 1 = loc[p].slot THEN i + 2 ELSE i + 1

\* Line 100.
InitialBestPrice(order_type) ==
  IF order_type = ORDER_TYPE_BUY THEN INT_MAX ELSE -INT_MAX

\* Lines 92-101: matchOrder returns at once when the new order is no longer
\* active, otherwise it sets up the best-match variables.
Enter(p) ==
  /\ pc[p] = "enter"
  /\ IF ~orders[loc[p].slot].active
       THEN Return(p, TRUE, 88, loc)
       ELSE /\ pc' = [pc EXCEPT ![p] = "scan"]
            /\ loc' = [loc EXCEPT
                 ![p].best_match_id = -1,
                 ![p].best_match_price =
                    InitialBestPrice(orders[loc[p].slot].order_type),
                 ![p].best_match_timestamp = TS_INT_MAX,
                 ![p].i = NextIndex(p, -1)]
            /\ UNCHANGED ret
  /\ UNCHANGED <<orders, order_count, next_order_id, trades, admitted>>

\* Crosses without the comparison of the prices.
CrossesAnyPrice(new_order, order) ==
  \/ /\ new_order.order_type = ORDER_TYPE_BUY
     /\ order.order_type = ORDER_TYPE_SELL
  \/ /\ new_order.order_type = ORDER_TYPE_SELL
     /\ order.order_type = ORDER_TYPE_BUY

\* Lines 110-130: order is on the other side with a price that crosses.
Crosses(new_order, order) ==
  \/ /\ new_order.order_type = ORDER_TYPE_BUY
     /\ order.order_type = ORDER_TYPE_SELL
     /\ new_order.price >= order.price
  \/ /\ new_order.order_type = ORDER_TYPE_SELL
     /\ order.order_type = ORDER_TYPE_BUY
     /\ order.price >= new_order.price

\* Lines 113-114 and 123-124: order beats the best match so far.
Beats(new_order, order, best_match_price, best_match_timestamp) ==
  \/ IF new_order.order_type = ORDER_TYPE_BUY
       THEN order.price < best_match_price
       ELSE order.price > best_match_price
  \/ /\ order.price = best_match_price
     /\ order.timestamp < best_match_timestamp

\* Lines 107-130 for one slot: does order replace the best match so far?
Better(new_order, order, best_match_price, best_match_timestamp) ==
  /\ order.active
  /\ order.ticker = new_order.ticker
  /\ Crosses(new_order, order)
  /\ Beats(new_order, order, best_match_price, best_match_timestamp)

\* Lines 104-131: one iteration of the scan, on slot loc[p].i; after the
\* last one, line 134 goes on to the execution when a match was found.
ScanStep(p) ==
  /\ pc[p] = "scan"
  /\ LET i == loc[p].i
     IN \E C \in SUBSET (Pending(i) \ {"quantity"}) :
          /\ C # {} => LandOrders(i, C)[i].active
          /\ LET o == LandOrders(i, C)
                 l == LandLoc(i, C)
                 better == Better(o[l[p].slot], o[i],
                                  l[p].best_match_price, l[p].best_match_timestamp)
                 id == IF better THEN i ELSE l[p].best_match_id
                 l1 == IF better
                         THEN [l[p] EXCEPT !.best_match_id = i,
                                           !.best_match_price = o[i].price,
                                           !.best_match_timestamp = o[i].timestamp]
                         ELSE l[p]
             IN /\ orders' = o
                /\ IF NextIndex(p, i) < MAX_ORDERS
                     THEN /\ loc' = [l EXCEPT ![p] = [l1 EXCEPT !.i = NextIndex(p, i)]]
                          /\ UNCHANGED <<pc, ret>>
                     ELSE IF id # -1
                       THEN /\ loc' = [l EXCEPT ![p] = [l1 EXCEPT !.i = 0]]
                            /\ pc' = [pc EXCEPT ![p] = "chk_new"]
                            /\ UNCHANGED ret
                       ELSE Return(p, TRUE, 88, l)
  /\ UNCHANGED <<order_count, next_order_id, trades, admitted>>

\* Line 139, first operand: if (!new_order.active) break.
CheckNew(p) ==
  /\ pc[p] = "chk_new"
  /\ IF ~orders[loc[p].slot].active
       THEN Return(p, TRUE, 88, loc)
       ELSE /\ pc' = [pc EXCEPT ![p] = "chk_matched"]
            /\ UNCHANGED <<loc, ret>>
  /\ UNCHANGED <<orders, order_count, next_order_id, trades, admitted>>

\* Line 139, second operand: if (!matched_order.active) break.
CheckMatched(p) ==
  /\ pc[p] = "chk_matched"
  /\ LET m == loc[p].best_match_id
     IN \E C \in SUBSET (Pending(m) \cap {"active"}) :
          LET o == LandOrders(m, C)
              l == LandLoc(m, C)
          IN /\ orders' = o
             /\ IF ~o[m].active
                  THEN Return(p, TRUE, 88, l)
                  ELSE /\ pc' = [pc EXCEPT ![p] = "read_new"]
                       /\ loc' = l
                       /\ UNCHANGED ret
  /\ UNCHANGED <<order_count, next_order_id, trades, admitted>>

\* Line 141: int new_qty = new_order.quantity.
ReadNew(p) ==
  /\ pc[p] = "read_new"
  /\ loc' = [loc EXCEPT ![p].new_qty = orders[loc[p].slot].quantity]
  /\ pc' = [pc EXCEPT ![p] = "read_matched"]
  /\ UNCHANGED <<orders, order_count, next_order_id, ret, trades, admitted>>

\* Lines 142-145: matched_qty, the break on a quantity <= 0, and match_qty.
ReadMatched(p) ==
  /\ pc[p] = "read_matched"
  /\ LET m == loc[p].best_match_id
     IN \E C \in SUBSET (Pending(m) \cap {"quantity"}) :
          LET o == LandOrders(m, C)
              l == LandLoc(m, C)
              matched_qty == o[m].quantity
          IN /\ orders' = o
             /\ IF l[p].new_qty <= 0 \/ matched_qty <= 0
                  THEN Return(p, TRUE, 88, l)
                  ELSE /\ loc' = [l EXCEPT
                            ![p].matched_qty = matched_qty,
                            ![p].match_qty = Min(l[p].new_qty, matched_qty)]
                       /\ pc' = [pc EXCEPT ![p] = "sub_new_ld"]
                       /\ UNCHANGED ret
  /\ UNCHANGED <<order_count, next_order_id, trades, admitted>>

\* Line 148, new_order.quantity -= match_qty: the read ...
SubNewLoad(p) ==
  /\ pc[p] = "sub_new_ld"
  /\ loc' = [loc EXCEPT ![p].tmp = orders[loc[p].slot].quantity]
  /\ pc' = [pc EXCEPT ![p] = "sub_new_st"]
  /\ UNCHANGED <<orders, order_count, next_order_id, ret, trades, admitted>>

\* ... and the write.
SubNewStore(p) ==
  /\ pc[p] = "sub_new_st"
  /\ orders' = [orders EXCEPT ![loc[p].slot].quantity = loc[p].tmp - loc[p].match_qty]
  /\ loc' = [loc EXCEPT ![p].tmp = 0]
  /\ pc' = [pc EXCEPT ![p] = "sub_matched_ld"]
  /\ UNCHANGED <<order_count, next_order_id, ret, trades, admitted>>

\* Line 149, matched_order.quantity -= match_qty: the read ...
SubMatchedLoad(p) ==
  /\ pc[p] = "sub_matched_ld"
  /\ LET m == loc[p].best_match_id
     IN \E C \in SUBSET (Pending(m) \cap {"quantity"}) :
          LET o == LandOrders(m, C)
              l == LandLoc(m, C)
          IN /\ orders' = o
             /\ loc' = [l EXCEPT ![p].tmp = o[m].quantity]
  /\ pc' = [pc EXCEPT ![p] = "sub_matched_st"]
  /\ UNCHANGED <<order_count, next_order_id, ret, trades, admitted>>

\* SubMatchedStore that subtracts matched_qty, the matched order's whole
\* quantity, instead of match_qty.
SubMatchedStoreWhole(p) ==
  /\ pc[p] = "sub_matched_st"
  /\ LET m == loc[p].best_match_id
     IN \E C \in SUBSET (Pending(m) \cap {"quantity"}) :
          LET o == LandOrders(m, C)
              l == LandLoc(m, C)
          IN /\ orders' = [o EXCEPT ![m].quantity = l[p].tmp - l[p].matched_qty]
             /\ loc' = [l EXCEPT ![p].tmp = 0]
  /\ pc' = [pc EXCEPT ![p] = "deact_new"]
  /\ UNCHANGED <<order_count, next_order_id, ret, trades, admitted>>

\* Line 149, matched_order.quantity -= match_qty: the write.
SubMatchedStore(p) ==
  /\ pc[p] = "sub_matched_st"
  /\ LET m == loc[p].best_match_id
     IN \E C \in SUBSET (Pending(m) \cap {"quantity"}) :
          LET o == LandOrders(m, C)
              l == LandLoc(m, C)
          IN /\ orders' = [o EXCEPT ![m].quantity = l[p].tmp - l[p].match_qty]
             /\ loc' = [l EXCEPT ![p].tmp = 0]
  /\ pc' = [pc EXCEPT ![p] = "deact_new"]
  /\ UNCHANGED <<order_count, next_order_id, ret, trades, admitted>>

\* DeactivateNew without the fetch_sub of line 154.
DeactivateNewUncounted(p) ==
  /\ pc[p] = "deact_new"
  /\ IF orders[loc[p].slot].quantity <= 0
       THEN orders' = [orders EXCEPT ![loc[p].slot].active = FALSE]
       ELSE UNCHANGED orders
  /\ pc' = [pc EXCEPT ![p] = "deact_matched"]
  /\ UNCHANGED <<order_count, next_order_id, loc, ret, trades, admitted>>

\* DeactivateNew that clears the slot (orders[id] = Order()) instead of
\* resetting the flag.
DeactivateNewClearsSlot(p) ==
  /\ pc[p] = "deact_new"
  /\ IF orders[loc[p].slot].quantity <= 0
       THEN /\ orders' = [orders EXCEPT ![loc[p].slot] = DefaultOrder]
            /\ order_count' = order_count - 1
       ELSE UNCHANGED <<orders, order_count>>
  /\ pc' = [pc EXCEPT ![p] = "deact_matched"]
  /\ UNCHANGED <<next_order_id, loc, ret, trades, admitted>>

\* Lines 152-155: deactivate the new order when it is fully matched.
DeactivateNew(p) ==
  /\ pc[p] = "deact_new"
  /\ IF orders[loc[p].slot].quantity <= 0
       THEN /\ orders' = [orders EXCEPT ![loc[p].slot].active = FALSE]
            /\ order_count' = order_count - 1
       ELSE UNCHANGED <<orders, order_count>>
  /\ pc' = [pc EXCEPT ![p] = "deact_matched"]
  /\ UNCHANGED <<next_order_id, loc, ret, trades, admitted>>

\* The record line 161 prints; new_id and matched_id are not printed, they
\* name the two orders of the trade.
Trade(p) ==
  [qty |-> loc[p].match_qty, ticker |-> orders[loc[p].slot].ticker,
   price |-> loc[p].best_match_price,
   new_id |-> loc[p].slot, matched_id |-> loc[p].best_match_id]

\* Line 161: the trades printed by the call that admitted slot s, in order.
Emit(p) == [trades EXCEPT ![loc[p].slot] = Append(@, Trade(p))]

\* DeactivateMatched without the break of line 163: the call goes back to
\* look for another match.
DeactivateMatchedRescan(p) ==
  /\ pc[p] = "deact_matched"
  /\ LET m == loc[p].best_match_id
     IN \E C \in SUBSET (Pending(m) \cap {"quantity", "active"}) :
          LET o == LandOrders(m, C)
              l == LandLoc(m, C)
          IN /\ IF o[m].quantity <= 0
                  THEN /\ orders' = [o EXCEPT ![m].active = FALSE]
                       /\ order_count' = order_count - 1
                  ELSE /\ orders' = o
                       /\ UNCHANGED order_count
             /\ loc' = l
  /\ pc' = [pc EXCEPT ![p] = "enter"]
  /\ trades' = Emit(p)
  /\ UNCHANGED <<next_order_id, ret, admitted>>

\* Lines 156-163: deactivate the matched order when it is fully matched,
\* print the trade, break, and return true from addOrder (line 88).
DeactivateMatched(p) ==
  /\ pc[p] = "deact_matched"
  /\ LET m == loc[p].best_match_id
     IN \E C \in SUBSET (Pending(m) \cap {"quantity", "active"}) :
          LET o == LandOrders(m, C)
              l == LandLoc(m, C)
          IN /\ IF o[m].quantity <= 0
                  THEN /\ orders' = [o EXCEPT ![m].active = FALSE]
                       /\ order_count' = order_count - 1
                  ELSE /\ orders' = o
                       /\ UNCHANGED order_count
             /\ Return(p, TRUE, 88, l)
  /\ trades' = Emit(p)
  /\ UNCHANGED <<next_order_id, admitted>>

\* Lines 202-204: order_count.load().
getOrderCount == order_count

\* ---------------------------------------------------------- specifications
\* The steps of a call once it has passed validation.
Step(p) ==
  \/ Load(p)
  \/ CasOk(p)
  \/ CasFail(p)
  \/ Write(p)
  \/ Inc(p)
  \/ Enter(p)
  \/ ScanStep(p)
  \/ CheckNew(p)
  \/ CheckMatched(p)
  \/ ReadNew(p)
  \/ ReadMatched(p)
  \/ SubNewLoad(p)
  \/ SubNewStore(p)
  \/ SubMatchedLoad(p)
  \/ SubMatchedStore(p)
  \/ DeactivateNew(p)
  \/ DeactivateMatched(p)

\* Threads call addOrder concurrently (simulateActiveTrading, lines 180-194).
Next ==
  \E p \in Threads :
    \/ \E in \in ConcInputs : Call(p, in[1], in[2], in[3], in[4], in[5])
    \/ Step(p)

Spec == Init /\ [][Next]_vars

\* The calls do not overlap: one thread makes them, one after the other.
SeqNext ==
  \/ \E in \in SeqInputs : Call(1, in[1], in[2], in[3], in[4], in[5])
  \/ Step(1)

SeqSpec == Init /\ [][SeqNext]_vars

\* Fair scheduling of the threads: a thread inside addOrder keeps taking
\* steps, and its compare_exchange_weak does not fail for ever while the
\* cursor holds the expected value (spurious failures are transient).
Fairness == \A p \in Threads : WF_vars(Step(p)) /\ SF_vars(CasOk(p))

\* The arguments of the overlapping calls whose termination is checked: one
\* order of each side, and one call that fails validation.
LiveInputs ==
  ({ORDER_TYPE_BUY, ORDER_TYPE_SELL} \X {SymA} \X {1} \X {1} \X {Clock0})
  \cup {<<ORDER_TYPE_BUY, SymA, 0, 1, Clock0>>}

LiveNext ==
  \E p \in Threads :
    \/ \E in \in LiveInputs : Call(p, in[1], in[2], in[3], in[4], in[5])
    \/ Step(p)

LiveSpec == Init /\ [][LiveNext]_vars /\ Fairness

\* Ticker symbols for ticker_to_index, as sequences of (signed) char values
\* without the terminating '\0': the empty string, ASCII symbols of one to
\* five chars (two that differ in the fifth char only, two that are
\* permutations of each other), the extremes of signed char, and one byte
\* above 0x7f (0xC3, the char value -61).
HashSymbols ==
  {<<>>, SymA, <<65, 66>>, <<66, 65>>, <<84, 49, 50, 51>>,
   <<84, 49, 50, 51, 52>>, <<84, 49, 50, 51, 53>>,
   <<127, 127, 127, 127>>, <<-128, -128, -128, -128>>, <<-61>>}

\* Calls that differ in the symbol only, and one that fails validation.
HashInputs ==
  ({ORDER_TYPE_BUY, ORDER_TYPE_SELL} \X HashSymbols \X {1} \X {1} \X {Clock0})
  \cup {<<ORDER_TYPE_BUY, SymA, 0, 1, Clock0>>}

\* Calls that do not overlap, on the symbols of HashSymbols.
HashNext ==
  \/ \E in \in HashInputs : Call(1, in[1], in[2], in[3], in[4], in[5])
  \/ Step(1)

HashSpec == Init /\ [][HashNext]_vars

\* ------------------------------------------------------------- properties
IsBuy(o) == o.order_type = ORDER_TYPE_BUY
IsSell(o) == o.order_type = ORDER_TYPE_SELL

\* Slot j holds an active order of the other side, on the ticker key of the
\* order in slot n, whose price crosses it.
Eligible(n, j) ==
  /\ j # n
  /\ orders[j].active
  /\ orders[j].ticker = orders[n].ticker
  /\ \/ IsBuy(orders[n]) /\ IsSell(orders[j]) /\ orders[j].price <= orders[n].price
     \/ IsSell(orders[n]) /\ IsBuy(orders[j]) /\ orders[j].price >= orders[n].price

EligibleSet(n) == {j \in Slots : Eligible(n, j)}

\* j's price is at least as good for the order in slot n as k's.
PriceAsGood(n, j, k) ==
  IF IsBuy(orders[n]) THEN orders[j].price <= orders[k].price
                      ELSE orders[j].price >= orders[k].price

\* The eligible orders with the best price and, among those, the earliest
\* timestamp.
BestOf(n) ==
  {j \in EligibleSet(n) :
     \A k \in EligibleSet(n) :
       /\ PriceAsGood(n, j, k)
       /\ orders[j].price = orders[k].price
            => orders[j].timestamp <= orders[k].timestamp}

\* The slots some call has claimed and written.
Written(s) == s < next_order_id /\ ~InWrite(s)

\* The calls that hold a claimed slot.
Holding(p) == pc[p] \notin {"idle", "load", "cas"}

RECURSIVE SumQty(_)
SumQty(ts) == IF ts = <<>> THEN 0 ELSE Head(ts).qty + SumQty(Tail(ts))

\* The trades of one call's record that involve the order in slot s.
Involving(ts, s) == SelectSeq(ts, LAMBDA t : t.new_id = s \/ t.matched_id = s)

RECURSIVE TradedUpTo(_, _)
TradedUpTo(s, k) ==
  IF k < 0 THEN 0 ELSE SumQty(Involving(trades[k], s)) + TradedUpTo(s, k - 1)

\* The matched quantities of all trades executed on the order in slot s.
Traded(s) == TradedUpTo(s, MAX_ORDERS - 1)

\* C1: under any interleaving of concurrent addOrder calls, order_count (what
\* getOrderCount returns) is >= 0 and <= the number of orders admitted so far.
C1_CountWithinAdmitted == order_count >= 0 /\ order_count <= next_order_id

\* C2: when the scan of matchOrder ends and an eligible counter-order exists,
\* one is selected, and it has the best price and, among those with the best
\* price, the earliest timestamp.
C2_BestCounterOrderSelected ==
  [][(pc[1] = "scan" /\ pc'[1] # "scan" /\ EligibleSet(loc[1].slot) # {})
       => /\ pc'[1] = "chk_new"
          /\ loc'[1].best_match_id \in BestOf(loc[1].slot)]_vars

\* The selection is right whenever every eligible price is below INT_MAX.
C2_BelowIntMax ==
  [][(/\ pc[1] = "scan" /\ pc'[1] # "scan" /\ EligibleSet(loc[1].slot) # {}
      /\ \A j \in EligibleSet(loc[1].slot) : orders[j].price < INT_MAX)
       => /\ pc'[1] = "chk_new"
          /\ loc'[1].best_match_id \in BestOf(loc[1].slot)]_vars

\* C3: in a sequential execution, when a match is found, the matched quantity
\* is the minimum of the two remaining quantities, exactly that amount is
\* subtracted from both orders, an order that reaches zero becomes inactive
\* and takes one off order_count, and an order left with quantity > 0 stays
\* active.  new_qty and matched_qty are the remaining quantities before the
\* trade (first conjunct).
C3_TradeApplied ==
  [][LET n == loc[1].slot
         m == loc[1].best_match_id
         N == loc[1].new_qty
         M == loc[1].matched_qty
         q == IF N <= M THEN N ELSE M
     IN /\ (pc[1] = "read_matched" /\ pc'[1] = "sub_new_ld")
             => /\ loc'[1].new_qty = orders[n].quantity
                /\ loc'[1].matched_qty = orders[m].quantity
                /\ loc'[1].match_qty =
                     IF orders[n].quantity <= orders[m].quantity
                       THEN orders[n].quantity ELSE orders[m].quantity
        /\ pc[1] \in {"chk_new", "chk_matched", "read_new", "read_matched",
                      "sub_new_ld", "sub_new_st", "sub_matched_ld", "sub_matched_st"}
             => order_count' = order_count
        /\ pc[1] = "deact_new"
             => /\ orders[n].quantity = N - q
                /\ orders[m].quantity = M - q
                /\ order_count' = order_count - (IF N - q = 0 THEN 1 ELSE 0)
        /\ pc[1] = "deact_matched"
             => /\ order_count' = order_count - (IF M - q = 0 THEN 1 ELSE 0)
                /\ orders'[n].quantity = N - q
                /\ orders'[m].quantity = M - q
                /\ orders'[n].active = (N - q > 0)
                /\ orders'[m].active = (M - q > 0)
                /\ trades'[n] = <<[qty |-> q, ticker |-> orders[n].ticker,
                                   price |-> orders[m].price,
                                   new_id |-> n, matched_id |-> m]>>]_vars

\* A resting Sell of 2 and an incoming Buy of 1 at the same price: the Sell is
\* left with 1 and active, the Buy with 0 and inactive, after one trade of 1.
C3_Witness ==
  /\ pc[1] = "idle"
  /\ admitted[0] = 2 /\ IsSell(orders[0]) /\ orders[0].quantity = 1 /\ orders[0].active
  /\ admitted[1] = 1 /\ IsBuy(orders[1]) /\ orders[1].quantity = 0 /\ ~orders[1].active
  /\ orders[0].price = orders[1].price
  /\ Len(trades[1]) = 1 /\ trades[1][1].qty = 1 /\ trades[1][1].matched_id = 0
  /\ order_count = 1

\* Arguments that validation must reject.
InvalidArgs(in) ==
  \/ in[1] \notin {ORDER_TYPE_BUY, ORDER_TYPE_SELL}
  \/ in[3] <= 0
  \/ in[4] <= 0

\* C4: an addOrder call with an order type other than Buy and Sell, or a
\* quantity <= 0, or a price <= 0 returns false and leaves the cursor, the
\* counter, the pool and the trades unchanged.
C4_InvalidRejected ==
  [][\A p \in Threads : \A in \in {x \in ConcInputs : InvalidArgs(x)} :
       Call(p, in[1], in[2], in[3], in[4], in[5])
         => /\ pc'[p] = "idle"
            /\ ret'[p].val = FALSE
            /\ UNCHANGED <<orders, order_count, next_order_id, trades, admitted>>]_vars

\* A call was rejected by validation while the pool holds orders and has room.
C4_Witness ==
  \E p \in Threads :
    /\ ret[p] = [val |-> FALSE, at |-> 64]
    /\ 0 < next_order_id /\ next_order_id < MAX_ORDERS
    /\ order_count > 0

\* C5: under any interleaving, every accepted admission claims a slot in
\* [0, MAX_ORDERS) that no other admission claims; the cursor only moves up,
\* by one per accepted admission, and never exceeds MAX_ORDERS; a slot, once
\* written, is never overwritten.
C5_SlotsClaimedOnce ==
  /\ [](/\ next_order_id \in 0..MAX_ORDERS
        /\ \A p \in Threads :
             Holding(p) =>
               /\ loc[p].slot \in Slots
               /\ loc[p].slot < next_order_id
               /\ \A q \in Threads \ {p} : Holding(q) => loc[q].slot # loc[p].slot)
  /\ [][/\ \/ next_order_id' = next_order_id
           \/ /\ next_order_id' = next_order_id + 1
              /\ \E p \in Threads :
                   pc[p] = "cas" /\ pc'[p] = "write" /\ loc'[p].slot = next_order_id
        /\ \A p \in Threads :
             (pc[p] = "cas" /\ pc'[p] = "write") => next_order_id' = next_order_id + 1
        /\ \A s \in Slots :
             Written(s) =>
               /\ orders'[s].order_type = orders[s].order_type
               /\ orders'[s].ticker = orders[s].ticker
               /\ orders'[s].price = orders[s].price
               /\ orders'[s].timestamp = orders[s].timestamp
               /\ admitted'[s] = admitted[s]]_vars

\* Two admissions hold the slots 0 and 1 at the same time.
C5_Witness ==
  \E p, q \in Threads :
    /\ p # q /\ Holding(p) /\ Holding(q)
    /\ loc[p].slot = 0 /\ loc[q].slot = 1
    /\ pc[p] = "write" /\ pc[q] = "write"

\* C6: once MAX_ORDERS slots are claimed, the cursor stays there, no call
\* claims a slot any more, and a call that reads the cursor returns false
\* and changes neither the cursor, the counter nor any slot.
C6_CapacityTerminal ==
  [][next_order_id >= MAX_ORDERS
       => /\ next_order_id' = next_order_id
          /\ \A p \in Threads :
               /\ pc'[p] = "write" => pc[p] = "write"
               /\ (pc[p] = "load" /\ pc'[p] # "load")
                    => /\ pc'[p] = "idle"
                       /\ ret'[p] = [val |-> FALSE, at |-> 74]
                       /\ UNCHANGED <<orders, order_count, next_order_id,
                                      trades, admitted>>]_vars

\* A call was rejected for capacity while every admitted order is inactive.
C6_Witness ==
  /\ next_order_id = MAX_ORDERS
  /\ \A s \in Slots : ~orders[s].active /\ admitted[s] > 0
  /\ \A p \in Threads : pc[p] = "idle"
  /\ \E p \in Threads : ret[p] = [val |-> FALSE, at |-> 74]

\* C7: an order whose remaining quantity has reached zero is inactive once
\* the calls have returned; an inactive order is never selected as a match
\* candidate, and no trade is executed on an inactive order.
C7_InactiveNeverTraded ==
  /\ []((\A p \in Threads : pc[p] = "idle")
          => \A s \in Slots : orders[s].quantity <= 0 => ~orders[s].active)
  /\ [][\A p \in Threads :
          /\ (pc[p] = "scan" /\ loc'[p].best_match_id # loc[p].best_match_id)
               => orders'[loc'[p].best_match_id].active
          /\ pc[p] \in {"sub_new_st", "sub_matched_st"}
               => /\ orders[loc[p].slot].active
                  /\ orders[loc[p].best_match_id].active]_vars

\* C8: a call to addOrder executes at most one trade.
C8_OneTradePerCall == \A s \in Slots : Len(trades[s]) <= 1

\* A call has returned after one trade although its order still has quantity
\* left and another eligible counter-order is resting.
C8_Witness ==
  /\ \A p \in Threads : pc[p] = "idle"
  /\ \E s \in Slots :
       /\ Len(trades[s]) = 1
       /\ orders[s].active /\ orders[s].quantity > 0
       /\ EligibleSet(s) # {}

C10_NoDoubleConsumption == \A s \in Slots : Traded(s) <= admitted[s]

\* The first four chars of a symbol.
First4(s) == IF Len(s) <= 4 THEN s ELSE SubSeq(s, 1, 4)

\* C11: for every symbol (every sequence of char values, also values outside
\* 0..127 where char is signed) ticker_to_index returns a key in
\* [0, NUM_TICKERS), and the key depends on the first four chars only.
C11_TickerKeyInRange ==
  [][\A in \in {x \in HashInputs : ~InvalidArgs(x)} :
       Call(1, in[1], in[2], in[3], in[4], in[5])
         => /\ loc'[1].ticker \in 0..(NUM_TICKERS - 1)
            /\ loc'[1].ticker = ticker_to_index(First4(in[2]))]_vars

\* The key is in range, and depends on the first four chars only, for every
\* symbol whose chars are all in 0..127.
C11_AsciiInRange ==
  [][\A in \in {x \in HashInputs :
                  ~InvalidArgs(x) /\ \A k \in 1..Len(x[2]) : x[2][k] \in 0..127} :
       Call(1, in[1], in[2], in[3], in[4], in[5])
         => /\ loc'[1].ticker \in 0..(NUM_TICKERS - 1)
            /\ loc'[1].ticker = ticker_to_index(First4(in[2]))]_vars

\* The fields of order that one iteration of the scan reads (lines 107-124):
\* active; ticker when it is active; order_type when the ticker is that of
\* the new order; price when the sides are opposite; timestamp when the price
\* crosses and equals the best price so far.
ScanReads(new_order, order, best_match_price) ==
  {"active"}
  \cup (IF order.active THEN {"ticker"} ELSE {})
  \cup (IF order.active /\ order.ticker = new_order.ticker
          THEN {"order_type"} ELSE {})
  \cup (IF order.active /\ order.ticker = new_order.ticker
            /\ CrossesAnyPrice(new_order, order)
          THEN {"price"} ELSE {})
  \cup (IF order.active /\ order.ticker = new_order.ticker
            /\ Crosses(new_order, order) /\ order.price = best_match_price
          THEN {"timestamp"} ELSE {})

\* C12: under any interleaving, a match attempt that reads active = true for
\* a slot reads every other field of the slot as written by the admission
\* that claimed it: no field it reads is still to be stored by line 83.
C12_PublishedAsUnit ==
  [][\A p \in Threads :
       /\ (pc[p] = "scan" /\ InWrite(loc[p].i) /\ orders'[loc[p].i].active)
            => ScanReads(orders'[loc[p].slot], orders'[loc[p].i],
                         loc[p].best_match_price)
                 \subseteq loc'[Owner(loc[p].i)].wr
       /\ (pc[p] = "read_matched" /\ InWrite(loc[p].best_match_id))
            => "quantity" \in loc'[Owner(loc[p].best_match_id)].wr]_vars

\* C13: under any interleaving of concurrent addOrder calls, the remaining
\* quantity of every order is >= 0 in every state, and once the order is
\* written it never becomes greater than it was.
C13_QuantityDecreasesOnly ==
  /\ [](\A s \in Slots : orders[s].quantity >= 0)
  /\ [][\A s \in Slots :
          Written(s) => orders'[s].quantity <= orders[s].quantity]_vars

\* The second half of C13 alone: a written order's quantity never goes up.
C13_NeverIncreases ==
  [][\A s \in Slots :
       Written(s) => orders'[s].quantity <= orders[s].quantity]_vars

\* The shared state: the pool, the two counters, and the history.
shared == <<orders, order_count, next_order_id, trades, admitted>>

\* C14: under fair scheduling every addOrder call returns; the slot-claim
\* loop is left either with a claimed slot or with the capacity rejection of
\* line 74, and a failed compare-and-exchange changes no shared state.
C14_CallReturns ==
  /\ \A p \in Threads : (pc[p] # "idle") ~> (pc[p] = "idle")
  /\ \A p \in Threads : (pc[p] \in {"load", "cas"}) ~> (pc[p] \notin {"load", "cas"})
  /\ [][\A p \in Threads :
          /\ (pc[p] \in {"load", "cas"} /\ pc'[p] \notin {"load", "cas"})
               => \/ /\ pc'[p] = "write"
                     /\ loc'[p].slot \in Slots
                     /\ next_order_id' = loc'[p].slot + 1
                  \/ /\ pc'[p] = "idle"
                     /\ ret'[p] = [val |-> FALSE, at |-> 74]
                     /\ next_order_id >= MAX_ORDERS
          /\ (pc[p] = "cas" /\ pc'[p] = "load") => UNCHANGED shared]_vars

\* A call lost the compare-and-exchange for the last slot to another call,
\* which is writing its order there, and is about to read the cursor again.
C14_Witness ==
  \E p, q \in Threads :
    /\ p # q
    /\ pc[p] = "load" /\ loc[p].slot = MAX_ORDERS /\ next_order_id = MAX_ORDERS
    /\ pc[q] = "write" /\ loc[q].slot = MAX_ORDERS - 1

\* Field f of the order admitted into slot s: what line 83 stores, whether
\* the store has landed or not.
AdmittedField(s, f) ==
  IF f \in Pending(s) THEN FieldValue(Owner(s), f) ELSE orders[s][f]

\* C15: every executed trade pairs the newly admitted order with a different
\* order, of the opposite side, on the same ticker key, whose price crosses
\* (buy price >= sell price); the record carries the matched quantity, that
\* ticker key, and the resting order's price.
C15_TradePairsCrossing ==
  [][\A p \in Threads :
       (pc[p] = "deact_matched" /\ pc'[p] = "idle")
         => LET n == loc[p].slot
                m == loc[p].best_match_id
                t == trades'[n][Len(trades'[n])]
                buy == IF AdmittedField(n, "order_type") = ORDER_TYPE_BUY THEN n ELSE m
                sell == IF buy = n THEN m ELSE n
            IN /\ m \in Slots \ {n}
               /\ AdmittedField(buy, "order_type") = ORDER_TYPE_BUY
               /\ AdmittedField(sell, "order_type") = ORDER_TYPE_SELL
               /\ AdmittedField(m, "ticker") = AdmittedField(n, "ticker")
               /\ AdmittedField(buy, "price") >= AdmittedField(sell, "price")
               /\ t.qty = Min(loc[p].new_qty, loc[p].matched_qty)
               /\ t.qty > 0
               /\ t.ticker = AdmittedField(n, "ticker")
               /\ t.price = AdmittedField(m, "price")]_vars

\* The positions of a call inside the execution of a trade (lines 139-163).
Executing(p) ==
  pc[p] \in {"chk_new", "chk_matched", "read_new", "read_matched", "sub_new_ld",
             "sub_new_st", "sub_matched_ld", "sub_matched_st", "deact_new",
             "deact_matched"}

\* The store of field f by the copy of line 83 into slot s lands in this step.
Lands(s, f) ==
  /\ f \in Pending(s)
  /\ orders'[s][f] = FieldValue(Owner(s), f)

\* C16: an accepted addOrder call changes the quantity and the active flag of
\* at most two orders, its own and the one counter-order it selected (which
\* stays the same throughout the execution); no other slot changes, apart
\* from the slot's own admission storing it; and the side, ticker key, price
\* and timestamp of a written order never change.
C16_FrameOfCall ==
  [][/\ \A s \in Slots :
          (\/ orders'[s].quantity # orders[s].quantity
           \/ orders'[s].active # orders[s].active)
            => \/ /\ orders'[s].quantity # orders[s].quantity => Lands(s, "quantity")
                  /\ orders'[s].active # orders[s].active => Lands(s, "active")
               \/ \E p \in Threads :
                    /\ Executing(p) /\ pc'[p] # pc[p]
                    /\ s \in {loc[p].slot, loc[p].best_match_id}
     /\ \A p \in Threads :
          /\ (Holding(p) /\ pc'[p] # "idle") => loc'[p].slot = loc[p].slot
          /\ (Executing(p) /\ pc'[p] # "idle")
               => /\ Executing(p)'
                  /\ loc'[p].best_match_id = loc[p].best_match_id
     /\ \A s \in Slots :
          Written(s) =>
            /\ orders'[s].order_type = orders[s].order_type
            /\ orders'[s].ticker = orders[s].ticker
            /\ orders'[s].price = orders[s].price
            /\ orders'[s].timestamp = orders[s].timestamp]_vars

\* Two Sells rest on one ticker and a Buy of 2 that crosses both has returned
\* after its one trade with the first: the other Sell is as it was admitted.
C16_Witness ==
  /\ \A p \in Threads : pc[p] = "idle"
  /\ next_order_id = 3
  /\ IsSell(orders[0]) /\ IsSell(orders[1]) /\ IsBuy(orders[2])
  /\ Len(trades[2]) = 1 /\ trades[2][1].matched_id = 0 /\ trades[2][1].qty = 1
  /\ trades[0] = <<>> /\ trades[1] = <<>>
  /\ orders[0].quantity = admitted[0] - 1
  /\ orders[2].quantity = admitted[2] - 1
  /\ orders[1].quantity = admitted[1] /\ orders[1].active
  /\ 1 \in EligibleSet(2)

\* C17: in an execution whose calls do not overlap, whenever no call is
\* running getOrderCount() is the number of slots whose active flag is true,
\* and an order is active exactly when it has been admitted and its remaining
\* quantity is > 0.
C17_CountIsActiveOrders ==
  (\A p \in Threads : pc[p] = "idle")
    => /\ getOrderCount = Cardinality({s \in Slots : orders[s].active})
       /\ \A s \in Slots :
            orders[s].active <=> (s < next_order_id /\ orders[s].quantity > 0)

\* The pool is full; the last call's order was filled completely by a
\* resting order that was filled too, and one order is left resting.
C17_Witness ==
  /\ \A p \in Threads : pc[p] = "idle"
  /\ next_order_id = MAX_ORDERS
  /\ Len(trades[MAX_ORDERS - 1]) = 1
  /\ orders[MAX_ORDERS - 1].quantity = 0 /\ ~orders[MAX_ORDERS - 1].active
  /\ Cardinality({s \in Slots : orders[s].active}) = 1
  /\ Cardinality({s \in Slots : orders[s].quantity = 0}) = 2
  /\ getOrderCount = 1

\* The quantity removed so far from the orders of one side on ticker key k in
\* the slots 0..j.
RECURSIVE RemovedUpTo(_, _, _)
RemovedUpTo(k, type, j) ==
  IF j < 0 THEN 0
  ELSE (IF /\ j < next_order_id
           /\ orders[j].ticker = k
           /\ orders[j].order_type = type
          THEN admitted[j] - orders[j].quantity ELSE 0)
       + RemovedUpTo(k, type, j - 1)

Removed(k, type) == RemovedUpTo(k, type, MAX_ORDERS - 1)

\* The matched quantities of the trades printed on ticker key k by the calls
\* that admitted the slots 0..j.
RECURSIVE TradedOnKeyUpTo(_, _)
TradedOnKeyUpTo(k, j) ==
  IF j < 0 THEN 0
  ELSE SumQty(SelectSeq(trades[j], LAMBDA t : t.ticker = k))
       + TradedOnKeyUpTo(k, j - 1)

TradedOnKey(k) == TradedOnKeyUpTo(k, MAX_ORDERS - 1)

\* C18: in an execution whose calls do not overlap, whenever no call is
\* running, on every ticker key the quantity removed from the Buy orders
\* equals the quantity removed from the Sell orders and equals the sum of the
\* matched quantities of the trades on that key.
C18_QuantityConserved ==
  (\A p \in Threads : pc[p] = "idle")
    => \A k \in {orders[s].ticker : s \in Slots} :
         /\ Removed(k, ORDER_TYPE_BUY) = Removed(k, ORDER_TYPE_SELL)
         /\ Removed(k, ORDER_TYPE_BUY) = TradedOnKey(k)

\* A Sell of 2 on one ticker was filled by 1, and an order on another ticker
\* rests untouched.
C18_Witness ==
  /\ \A p \in Threads : pc[p] = "idle"
  /\ \E s, r \in Slots :
       /\ IsSell(orders[s]) /\ admitted[s] = 2 /\ orders[s].quantity = 1
       /\ Removed(orders[s].ticker, ORDER_TYPE_BUY) = 1
       /\ TradedOnKey(orders[s].ticker) = 1
       /\ r < next_order_id /\ orders[r].ticker # orders[s].ticker
       /\ orders[r].active /\ TradedOnKey(orders[r].ticker) = 0

\* The lowest slot index of a non-empty set of slots.
Lowest(S) == CHOOSE j \in S : \A k \in S : j <= k

\* C19: when several eligible counter-orders have the same best price and the
\* same timestamp (the earliest at that price), the match attempt selects the
\* one with the lowest slot index.
C19_TieGoesToLowestSlot ==
  [][(/\ pc[1] = "scan" /\ pc'[1] # "scan"
      /\ Cardinality(BestOf(loc[1].slot)) > 1)
       => /\ pc'[1] = "chk_new"
          /\ loc'[1].best_match_id = Lowest(BestOf(loc[1].slot))]_vars

\* The tie goes to the lowest slot whenever the tied price is below INT_MAX.
C19_BelowIntMax ==
  [][(/\ pc[1] = "scan" /\ pc'[1] # "scan"
      /\ Cardinality(BestOf(loc[1].slot)) > 1
      /\ \A j \in BestOf(loc[1].slot) : orders[j].price < INT_MAX)
       => /\ pc'[1] = "chk_new"
          /\ loc'[1].best_match_id = Lowest(BestOf(loc[1].slot))]_vars

====
